---- MODULE Spec2Model ----
(***************************************************************************)
(* A model of the QOI codec of qoi.py: the chunk packers, the encoder      *)
(* loop of qoi_encode, the header reader and the decoder loop of           *)
(* qoi_decode.  Bytes are integers in 0..255, a pixel is a triple          *)
(* <<r, g, b>>, a file is a sequence of bytes.                             *)
(***************************************************************************)
EXTENDS Integers, Sequences, FiniteSets, TLC

VARIABLES
    img,     \* the argument of qoi_encode: [height, width, mat]
    enc,     \* the locals of qoi_encode
    chunks,  \* the chunks written by qoi_encode so far, in order
    file,    \* the content of the file at path, or NoFile
    dec,     \* the locals and the outcome of qoi_decode
    call,    \* a single call of one chunk packer: [fn, args, ret]
    hist     \* the qoi_encode calls that have returned: [calls, out], out the
             \* file the first of them left

vars == <<img, enc, chunks, file, dec, call, hist>>

(***************************************************************************)
(* Bounds of the model.                                                    *)
(***************************************************************************)
MaxLen == 4        \* pixels of an image drawn freely from Palette
MaxHeight == 2     \* rows of such an image
MaxRunLen == 70    \* longest streak of one pixel in an image of RunImages
MaxChunks == 3     \* chunks (whole or cut short) of a hand-made stream
MaxCalls == 2      \* calls of qoi_encode on the image
MaxLiveChunks == 2 \* chunks of a hand-made stream of DecodeFiles

(***************************************************************************)
(* Bit operations of Python on the integers the code applies them to.      *)
(***************************************************************************)
Pow2(n) == 2 ^ n

RECURSIVE BitAnd(_, _)
BitAnd(a, b) ==
    IF a = 0 \/ b = 0 THEN 0
    ELSE (a % 2) * (b % 2) + 2 * BitAnd(a \div 2, b \div 2)

RECURSIVE BitOr(_, _)
BitOr(a, b) ==
    IF a = 0 THEN b
    ELSE IF b = 0 THEN a
    ELSE (IF a % 2 = 1 \/ b % 2 = 1 THEN 1 ELSE 0) + 2 * BitOr(a \div 2, b \div 2)

\* mask & x for a mask in 0..255 and any integer x: Python's integers are
\* two's complement of unbounded width, so only the low 8 bits of x matter.
PyAnd(mask, x) == BitAnd(mask, x % 256)

\* ~x
PyNot(x) == (0 - x) - 1

Shl(x, n) == x * Pow2(n)
Shr(x, n) == x \div Pow2(n)

\* .astype(np.uint8) of one channel
Uint8(x) == x % 256

(***************************************************************************)
(* Tags and fixed byte strings.                                            *)
(***************************************************************************)
QOI_TAG_RGB == 254
QOI_TAG_RGBA == 255
QOI_TAG_INDEX == 0
QOI_TAG_DIFF == 64
QOI_TAG_LUMA == 128
QOI_TAG_RUN == 192

QOI_HEADER_size == 14

MAGIC == <<113, 111, 105, 102>>     \* b'qoif'

\* a mutant of END_MARKER: the closing 1 is missing from the arguments of pack
END_MARKER_zeros == <<0, 0, 0, 0, 0, 0, 0, 0>>

END_MARKER == <<0, 0, 0, 0, 0, 0, 0, 1>>

\* struct ">I": four bytes, most significant first
PackU32(n) ==
    <<(n \div 16777216) % 256, (n \div 65536) % 256, (n \div 256) % 256, n % 256>>

UnpackU32(b) == ((b[1] * 256 + b[2]) * 256 + b[3]) * 256 + b[4]

\* QOI_HEADER.pack(magic, width, height, channels, colorspace)
QOI_HEADER_pack(magic, width, height, channel_num, colorspace) ==
    magic \o PackU32(width) \o PackU32(height) \o <<channel_num, colorspace>>

pack_qoi_header(width, height) == QOI_HEADER_pack(MAGIC, width, height, 3, 1)

(***************************************************************************)
(* The chunk packers.  A packer returns [err |-> FALSE, bytes |-> ...], or *)
(* [err |-> TRUE, bytes |-> <<>>] when its assert fails (AssertionError).  *)
(***************************************************************************)
Packed(bytes) == [err |-> FALSE, bytes |-> bytes]
AssertionError == [err |-> TRUE, bytes |-> <<>>]

pack_qoi_op_rgb(r, g, b) == Packed(<<254, r, g, b>>)

pack_qoi_op_index(index) ==
    IF index >= 0 /\ index <= 63 THEN Packed(<<index>>) ELSE AssertionError

pack_qoi_op_diff(dr, dg, db) ==
    IF (dr <= 1 /\ dr >= -2) /\ (dg <= 1 /\ dg >= -2) /\ (db <= 1 /\ db >= -2)
    THEN LET v0 == BitOr(0, 64)
             v1 == BitOr(v0, Shl(PyAnd(3, dr), 4))
             v2 == BitOr(v1, Shl(PyAnd(3, dg), 2))
             v3 == BitOr(v2, Shl(PyAnd(3, db), 0))
         IN  Packed(<<v3>>)
    ELSE AssertionError

pack_qoi_op_luma(drg, dg, dbg) ==
    IF (drg <= 7 /\ drg >= -8) /\ (dg <= 31 /\ dg >= -32) /\ (dbg <= 7 /\ dbg >= -8)
    THEN LET byte1 == BitOr(BitOr(128, 0), PyAnd(63, dg))
             byte2a == BitOr(0, Shl(PyAnd(15, drg), 4))
             byte2 == BitOr(byte2a, PyAnd(15, dbg))
         IN  Packed(<<byte1, byte2>>)
    ELSE AssertionError

pack_qoi_op_run(run_length) ==
    IF run_length > 0 /\ run_length < 63
    THEN Packed(<<BitOr(192, run_length - 1)>>)
    ELSE AssertionError

qoi_color_hash(r, g, b) == (r * 3 + g * 5 + b * 7 + 255 * 11) % 64

ZeroPx == <<0, 0, 0>>

\* np.zeros((64, 3), dtype=np.uint8)
ZeroTable == [i \in 0..63 |-> ZeroPx]

(***************************************************************************)
(* qoi_encode.  The state of one call is threaded as a record              *)
(*   [pc, mat_pos, px_pre, run, index_table, f, chunks]                    *)
(* where f is what has been written to the file and chunks logs each chunk *)
(* written: its opcode, the arguments its packer was called with, the      *)
(* position of the pixel being processed, and its bytes.                   *)
(***************************************************************************)
Chunk(op, args, pos, bytes) == [op |-> op, args |-> args, pos |-> pos, bytes |-> bytes]

\* f.write(pack_...(...)): an AssertionError of the packer ends the call
Write(s, packed, op, args) ==
    IF packed.err
    THEN [s EXCEPT !.pc = "raised"]
    ELSE [s EXCEPT !.f = @ \o packed.bytes,
                   !.chunks = Append(@, Chunk(op, args, s.mat_pos, packed.bytes))]

\* a mutant of ExtendsRun: the cap of a run is tested against 64, the number
\* of values of the 6-bit field, instead of 62
ExtendsRun_cap64(px, px_pre, mat_pos, run) == px = px_pre /\ mat_pos # 0 /\ run < 64

\* a mutant of ExtendsRun: the second pixel does not start a run either
ExtendsRun_skipfirst(px, px_pre, mat_pos, run) == px = px_pre /\ mat_pos > 1 /\ run < 62

\* the test of line 250
ExtendsRun(px, px_pre, mat_pos, run) == px = px_pre /\ mat_pos # 0 /\ run < 62

\* a mutant of FitsDiff: the upper limit of db is off by one
FitsDiff_tight(dr, dg, db) ==
    (dr > -3 /\ dr < 2) /\ (dg > -3 /\ dg < 2) /\ (db > -3 /\ db < 1)

\* the test of lines 274-276
FitsDiff(dr, dg, db) ==
    (dr > -3 /\ dr < 2) /\ (dg > -3 /\ dg < 2) /\ (db > -3 /\ db < 2)

\* the test of lines 278-280
FitsLuma(drg, dg, dbg) ==
    (dg > -33 /\ dg < 32) /\ (drg > -9 /\ drg < 8) /\ (dbg > -9 /\ dbg < 8)

\* lines 257-260
FlushRun(s) ==
    IF s.run # 0
    THEN LET t == Write(s, pack_qoi_op_run(s.run), "RUN", <<s.run>>)
         IN  IF t.pc = "raised" THEN t ELSE [t EXCEPT !.run = 0]
    ELSE s

\* a mutant of EmitPixel: the differences are tried before the cache
EmitPixel_difffirst(s, px) ==
    IF s.pc = "raised" THEN s
    ELSE
    LET r == px[1]
        g == px[2]
        b == px[3]
        index_pos == qoi_color_hash(r, g, b)
        dr == r - s.px_pre[1]
        dg == g - s.px_pre[2]
        db == b - s.px_pre[3]
        drg == dr - dg
        dbg == db - dg
    IN  IF FitsDiff(dr, dg, db)
        THEN Write(s, pack_qoi_op_diff(dr, dg, db), "DIFF", <<dr, dg, db>>)
        ELSE IF FitsLuma(drg, dg, dbg)
        THEN Write(s, pack_qoi_op_luma(drg, dg, dbg), "LUMA", <<drg, dg, dbg>>)
        ELSE IF s.index_table[index_pos] = px
        THEN Write(s, pack_qoi_op_index(index_pos), "INDEX", <<index_pos>>)
        ELSE LET t == Write(s, pack_qoi_op_rgb(r, g, b), "RGB", <<r, g, b>>)
             IN  [t EXCEPT !.index_table[index_pos] = px]

\* a mutant of EmitPixel: the pixel is stored into the cache on every path
EmitPixel_cacheall(s, px) ==
    IF s.pc = "raised" THEN s
    ELSE
    LET r == px[1]
        g == px[2]
        b == px[3]
        index_pos == qoi_color_hash(r, g, b)
        dr == r - s.px_pre[1]
        dg == g - s.px_pre[2]
        db == b - s.px_pre[3]
        drg == dr - dg
        dbg == db - dg
        t == IF s.index_table[index_pos] = px
             THEN Write(s, pack_qoi_op_index(index_pos), "INDEX", <<index_pos>>)
             ELSE IF FitsDiff(dr, dg, db)
             THEN Write(s, pack_qoi_op_diff(dr, dg, db), "DIFF", <<dr, dg, db>>)
             ELSE IF FitsLuma(drg, dg, dbg)
             THEN Write(s, pack_qoi_op_luma(drg, dg, dbg), "LUMA", <<drg, dg, dbg>>)
             ELSE Write(s, pack_qoi_op_rgb(r, g, b), "RGB", <<r, g, b>>)
    IN  [t EXCEPT !.index_table[index_pos] = px]

\* a mutant of EmitPixel: the differences are taken modulo 256, as signed bytes
EmitPixel_wrap(s, px) ==
    IF s.pc = "raised" THEN s
    ELSE
    LET r == px[1]
        g == px[2]
        b == px[3]
        index_pos == qoi_color_hash(r, g, b)
        dr == ((r - s.px_pre[1] + 128) % 256) - 128
        dg == ((g - s.px_pre[2] + 128) % 256) - 128
        db == ((b - s.px_pre[3] + 128) % 256) - 128
        drg == dr - dg
        dbg == db - dg
    IN  IF s.index_table[index_pos] = px
        THEN Write(s, pack_qoi_op_index(index_pos), "INDEX", <<index_pos>>)
        ELSE IF FitsDiff(dr, dg, db)
        THEN Write(s, pack_qoi_op_diff(dr, dg, db), "DIFF", <<dr, dg, db>>)
        ELSE IF FitsLuma(drg, dg, dbg)
        THEN Write(s, pack_qoi_op_luma(drg, dg, dbg), "LUMA", <<drg, dg, dbg>>)
        ELSE LET t == Write(s, pack_qoi_op_rgb(r, g, b), "RGB", <<r, g, b>>)
             IN  [t EXCEPT !.index_table[index_pos] = px]

\* lines 262-284
EmitPixel(s, px) ==
    IF s.pc = "raised" THEN s
    ELSE
    LET r == px[1]
        g == px[2]
        b == px[3]
        index_pos == qoi_color_hash(r, g, b)
    IN  IF s.index_table[index_pos] = px
        THEN Write(s, pack_qoi_op_index(index_pos), "INDEX", <<index_pos>>)
        ELSE LET dr == r - s.px_pre[1]
                 dg == g - s.px_pre[2]
                 db == b - s.px_pre[3]
                 drg == dr - dg
                 dbg == db - dg
             IN  IF FitsDiff(dr, dg, db)
                 THEN Write(s, pack_qoi_op_diff(dr, dg, db), "DIFF", <<dr, dg, db>>)
                 ELSE IF FitsLuma(drg, dg, dbg)
                 THEN Write(s, pack_qoi_op_luma(drg, dg, dbg), "LUMA", <<drg, dg, dbg>>)
                 ELSE LET t == Write(s, pack_qoi_op_rgb(r, g, b), "RGB", <<r, g, b>>)
                      IN  [t EXCEPT !.index_table[index_pos] = px]

\* a mutant of encode_pixel: the run the last pixel extends is not written
encode_pixel_noflush(s, px, last) ==
    LET t == IF ExtendsRun(px, s.px_pre, s.mat_pos, s.run)
             THEN [s EXCEPT !.run = @ + 1]
             ELSE EmitPixel(FlushRun(s), px)
    IN  IF t.pc = "raised" THEN t
        ELSE [t EXCEPT !.px_pre = px, !.mat_pos = @ + 1]

\* one iteration of the loop of line 248, for pixel px; last: mat_pos == px_len - 1
encode_pixel(s, px, last) ==
    LET t == IF ExtendsRun(px, s.px_pre, s.mat_pos, s.run)
             THEN LET u == [s EXCEPT !.run = @ + 1]
                  IN  IF last
                      THEN Write(u, pack_qoi_op_run(u.run), "RUN", <<u.run>>)
                      ELSE u
             ELSE EmitPixel(FlushRun(s), px)
    IN  IF t.pc = "raised" THEN t
        ELSE [t EXCEPT !.px_pre = px, !.mat_pos = @ + 1]

NoFile == [exists |-> FALSE, bytes |-> <<>>]
FileOf(bytes) == [exists |-> TRUE, bytes |-> bytes]

EncIdle ==
    [pc |-> "idle", mat_pos |-> 0, px_pre |-> ZeroPx, run |-> 0,
     index_table |-> ZeroTable]

\* the encoder is never called in a behaviour that decodes a given file
EncOff == [EncIdle EXCEPT !.pc = "off"]

ImgLen == img.width * img.height

EncState == 
    [pc |-> enc.pc, mat_pos |-> enc.mat_pos, px_pre |-> enc.px_pre, run |-> enc.run,
     index_table |-> enc.index_table, f |-> file.bytes, chunks |-> chunks]

NoHist == [calls |-> 0, out |-> <<>>]

\* qoi_encode is called on the image, for the first time or again after it
\* has returned, when no decode call is reading the file
EncodeCalled ==
    \/ enc.pc = "idle"
    \/ enc.pc = "done" /\ hist.calls < MaxCalls /\ dec.pc \in {"idle", "done"}

\* a mutant of EncodeBegin: previous pixel, run and cache are kept from the
\* call before (state of the module, not of the call)
EncodeBegin_stale ==
    /\ EncodeCalled
    /\ enc' = [enc EXCEPT !.pc = "loop", !.mat_pos = 0]
    /\ file' = FileOf(pack_qoi_header(img.width, img.height))
    /\ chunks' = <<>>
    /\ UNCHANGED <<img, dec, call, hist>>

\* lines 233-246: open(path, 'wb'), the header, the fresh locals
EncodeBegin ==
    /\ EncodeCalled
    /\ enc' = [EncIdle EXCEPT !.pc = "loop"]
    /\ file' = FileOf(pack_qoi_header(img.width, img.height))
    /\ chunks' = <<>>
    /\ UNCHANGED <<img, dec, call, hist>>

\* lines 248-285: one pixel
EncodePixel ==
    /\ enc.pc = "loop"
    /\ enc.mat_pos < ImgLen
    /\ LET t == encode_pixel(EncState, img.mat[enc.mat_pos + 1],
                             enc.mat_pos = ImgLen - 1)
       IN  /\ enc' = [pc |-> t.pc, mat_pos |-> t.mat_pos, px_pre |-> t.px_pre,
                      run |-> t.run, index_table |-> t.index_table]
           /\ file' = FileOf(t.f)
           /\ chunks' = t.chunks
    /\ UNCHANGED <<img, dec, call, hist>>

\* lines 286-287: the end marker, the file is closed, return 1
EncodeEnd ==
    /\ enc.pc = "loop"
    /\ enc.mat_pos = ImgLen
    /\ file' = FileOf(file.bytes \o END_MARKER)
    /\ enc' = [enc EXCEPT !.pc = "done"]
    /\ hist' = [calls |-> hist.calls + 1,
                out |-> IF hist.calls = 0 THEN file.bytes \o END_MARKER ELSE hist.out]
    /\ UNCHANGED <<img, chunks, dec, call>>

(***************************************************************************)
(* qoi_decode.  dec holds the locals of one call:                          *)
(*   pc: "idle" before the call, "loop" in the while loop, "done" after a  *)
(*       return, "raised" after an exception (err names it);               *)
(*   fpos: the offset of f in the file; ret: the value returned.           *)
(***************************************************************************)
Min(a, b) == IF a < b THEN a ELSE b

\* f.read(n) at offset fpos: short, or empty, at the end of the file
f_read(fpos, n) == SubSeq(file.bytes, fpos + 1, Min(fpos + n, Len(file.bytes)))

\* int.from_bytes(f.read(1), 'big') at offset fpos: 0 for the empty read
ReadInt(fpos) == LET b == f_read(fpos, 1) IN IF b = <<>> THEN 0 ELSE b[1]

Advance(d, n) == [d EXCEPT !.fpos = Min(@ + n, Len(file.bytes))]

\* Qoi_header()
NewHeader == [width |-> 0, height |-> 0, channels |-> 0, colorspace |-> 0]

\* a mutant of read_buffer: the assert on the magic is missing
read_buffer_nomagic(buffer) ==
    IF Len(buffer) # QOI_HEADER_size
    THEN [err |-> "struct.error", header |-> NewHeader]
    ELSE [err |-> "none",
          header |-> [width |-> UnpackU32(SubSeq(buffer, 5, 8)),
                      height |-> UnpackU32(SubSeq(buffer, 9, 12)),
                      channels |-> buffer[13],
                      colorspace |-> buffer[14]]]

\* Qoi_header.read_buffer: QOI_HEADER.unpack wants exactly 14 bytes
\* (struct.error otherwise), then the assert on the magic
read_buffer(buffer) ==
    IF Len(buffer) # QOI_HEADER_size
    THEN [err |-> "struct.error", header |-> NewHeader]
    ELSE IF SubSeq(buffer, 1, 4) # MAGIC
    THEN [err |-> "AssertionError", header |-> NewHeader]
    ELSE [err |-> "none",
          header |-> [width |-> UnpackU32(SubSeq(buffer, 5, 8)),
                      height |-> UnpackU32(SubSeq(buffer, 9, 12)),
                      channels |-> buffer[13],
                      colorspace |-> buffer[14]]]

\* a mutant of read_sign_byte: the field is read as biased by half its range
\* (the layout the docstrings of the packers describe), not as two's complement
read_sign_byte_biased(byte, bit) == byte - Pow2(bit - 1)

read_sign_byte(byte, bit) ==
    IF bit = 2
    THEN IF Shr(PyAnd(2, byte), 1) = 1 THEN (0 - 1) - PyAnd(3, PyNot(byte)) ELSE byte
    ELSE IF bit = 4
    THEN IF Shr(PyAnd(8, byte), 3) = 1 THEN (0 - 1) - PyAnd(15, PyNot(byte)) ELSE byte
    ELSE \* bit == 6; no other width is ever passed (the code returns None for one)
         IF Shr(PyAnd(32, byte), 5) = 1 THEN (0 - 1) - PyAnd(63, PyNot(byte)) ELSE byte

\* a mutant of AddPx: the sum is clamped to 0..255 instead of wrapped
AddPx_saturate(px, dr, dg, db) ==
    LET Clamp(x) == IF x < 0 THEN 0 ELSE IF x > 255 THEN 255 ELSE x
    IN  <<Clamp(px[1] + dr), Clamp(px[2] + dg), Clamp(px[3] + db)>>

\* (px + np.asarray([dr, dg, db])).astype(np.uint8)
AddPx(px, dr, dg, db) == <<Uint8(px[1] + dr), Uint8(px[2] + dg), Uint8(px[3] + db)>>

\* a mutant of decode_rgb: the pixel is not stored into the cache
decode_rgb_nocache(d) ==
    LET r == ReadInt(d.fpos)
        g == ReadInt(d.fpos + 1)
        b == ReadInt(d.fpos + 2)
    IN  [Advance(d, 3) EXCEPT !.px = <<r, g, b>>]

\* decode_rgb(f, index_table) with f at d.fpos
decode_rgb(d) ==
    LET r == ReadInt(d.fpos)
        g == ReadInt(d.fpos + 1)
        b == ReadInt(d.fpos + 2)
        index_pos == qoi_color_hash(r, g, b)
    IN  [Advance(d, 3) EXCEPT !.px = <<r, g, b>>, !.index_table[index_pos] = <<r, g, b>>]

decode_diff(buffer, px) ==
    LET dr == read_sign_byte(Shr(PyAnd(48, buffer), 4), 2)
        dg == read_sign_byte(Shr(PyAnd(12, buffer), 2), 2)
        db == read_sign_byte(PyAnd(3, buffer), 2)
    IN  AddPx(px, dr, dg, db)

\* a mutant of decode_luma: the green difference is not added to dr and db
decode_luma_nogreen(d, buffer) ==
    LET dg == read_sign_byte(PyAnd(63, buffer), 6)
        another_buffer == ReadInt(d.fpos)
        drg == read_sign_byte(Shr(PyAnd(240, another_buffer), 4), 4)
        dbg == read_sign_byte(PyAnd(15, another_buffer), 4)
    IN  [Advance(d, 1) EXCEPT !.px = AddPx(d.px, drg, dg, dbg)]

\* decode_luma(f, buffer, px) with f at d.fpos
decode_luma(d, buffer) ==
    LET dg == read_sign_byte(PyAnd(63, buffer), 6)
        another_buffer == ReadInt(d.fpos)
        drg == read_sign_byte(Shr(PyAnd(240, another_buffer), 4), 4)
        dbg == read_sign_byte(PyAnd(15, another_buffer), 4)
        dr == drg + dg
        db == dbg + dg
    IN  [Advance(d, 1) EXCEPT !.px = AddPx(d.px, dr, dg, db)]

\* the row returned is a view of index_table; the table is written only by
\* decode_rgb, which replaces px in the same iteration, so the value is the same
decode_index(buffer, index_table) == index_table[PyAnd(63, buffer)]

\* a mutant of decode_chunk: the Run branch does not count the repeat that
\* the same iteration emits
decode_chunk_runoff(d) ==
    LET buffer == ReadInt(d.fpos)
        d1 == Advance(d, 1)
        tag == PyAnd(192, buffer)
    IN  IF buffer = QOI_TAG_RGB THEN decode_rgb(d1)
        ELSE IF buffer = QOI_TAG_RGBA THEN d1
        ELSE IF tag = QOI_TAG_RUN THEN [d1 EXCEPT !.run = PyAnd(63, buffer) + 1]
        ELSE IF tag = QOI_TAG_DIFF THEN [d1 EXCEPT !.px = decode_diff(buffer, d1.px)]
        ELSE IF tag = QOI_TAG_LUMA THEN decode_luma(d1, buffer)
        ELSE IF tag = QOI_TAG_INDEX
        THEN [d1 EXCEPT !.px = decode_index(buffer, d1.index_table)]
        ELSE d1

\* lines 386-401: the chunk at d.fpos (run == 0)
decode_chunk(d) ==
    LET buffer == ReadInt(d.fpos)
        d1 == Advance(d, 1)
        tag == PyAnd(192, buffer)
    IN  IF buffer = QOI_TAG_RGB THEN decode_rgb(d1)
        ELSE IF buffer = QOI_TAG_RGBA THEN d1
        ELSE IF tag = QOI_TAG_RUN THEN [d1 EXCEPT !.run = (PyAnd(63, buffer) + 1) - 1]
        ELSE IF tag = QOI_TAG_DIFF THEN [d1 EXCEPT !.px = decode_diff(buffer, d1.px)]
        ELSE IF tag = QOI_TAG_LUMA THEN decode_luma(d1, buffer)
        ELSE IF tag = QOI_TAG_INDEX
        THEN [d1 EXCEPT !.px = decode_index(buffer, d1.index_table)]
        ELSE d1

\* a mutant of decode_iter: an iteration that consumes a pending run stores
\* the pixel but does not move to the next position
decode_iter_stall(d) ==
    IF d.run # 0
    THEN [d EXCEPT !.run = @ - 1, !.mat[d.mat_pos + 1] = d.px]
    ELSE LET d2 == decode_chunk(d)
         IN  [d2 EXCEPT !.mat[d.mat_pos + 1] = d2.px, !.mat_pos = @ + 1]

\* one iteration of the loop of line 379
decode_iter(d) ==
    LET d2 == IF d.run # 0 THEN [d EXCEPT !.run = @ - 1] ELSE decode_chunk(d)
    IN  [d2 EXCEPT !.mat[d.mat_pos + 1] = d2.px, !.mat_pos = @ + 1]

NoRet == [kind |-> "unset", shape |-> <<>>, data |-> <<>>]
None == [kind |-> "None", shape |-> <<>>, data |-> <<>>]

DecIdle ==
    [pc |-> "idle", err |-> "none", header |-> NewHeader, px_len |-> 0, px |-> ZeroPx,
     mat |-> <<>>, mat_pos |-> 0, run |-> 0, index_table |-> ZeroTable, fpos |-> 0,
     ret |-> NoRet]

\* qoi_decode is called once no encode call is writing the file
DecodeBegin ==
    /\ dec.pc = "idle"
    /\ enc.pc \in {"off", "done", "raised"}
    /\ IF ~file.exists
       THEN dec' = [dec EXCEPT !.pc = "done", !.ret = None]
       ELSE LET buffer == f_read(0, QOI_HEADER_size)
                h == read_buffer(buffer)
                n == h.header.width * h.header.height
            IN  IF h.err # "none"
                THEN dec' = [dec EXCEPT !.pc = "raised", !.err = h.err,
                                        !.fpos = Len(buffer)]
                ELSE dec' = [dec EXCEPT !.pc = "loop", !.header = h.header,
                                        !.fpos = Len(buffer), !.px_len = n,
                                        !.mat = [i \in 1..n |-> ZeroPx]]
    /\ UNCHANGED <<img, enc, chunks, file, call, hist>>

DecodeIter ==
    /\ dec.pc = "loop"
    /\ dec.mat_pos < dec.px_len
    /\ dec' = decode_iter(dec)
    /\ UNCHANGED <<img, enc, chunks, file, call, hist>>

\* line 404: return mat.reshape((header.height, header.width, 3))
DecodeEnd ==
    /\ dec.pc = "loop"
    /\ dec.mat_pos >= dec.px_len
    /\ dec' = [dec EXCEPT !.pc = "done",
                          !.ret = [kind |-> "ndarray",
                                   shape |-> <<dec.header.height, dec.header.width, 3>>,
                                   data |-> dec.mat]]
    /\ UNCHANGED <<img, enc, chunks, file, call, hist>>

(***************************************************************************)
(* A single call of a chunk packer on given arguments.                     *)
(***************************************************************************)
NoCall == [fn |-> "none", args |-> <<>>, ret |-> Packed(<<>>), done |-> FALSE]

DiffArgs == {<<dr, dg, db>> : dr \in -3..2, dg \in -3..2, db \in -3..2}
LumaArgs == {<<drg, dg, dbg>> : drg \in -9..8, dg \in -33..32, dbg \in -9..8}

CallDiff ==
    /\ call.fn = "pack_qoi_op_diff"
    /\ ~call.done
    /\ call' = [call EXCEPT !.done = TRUE,
                   !.ret = pack_qoi_op_diff(call.args[1], call.args[2], call.args[3])]
    /\ UNCHANGED <<img, enc, chunks, file, dec, hist>>

CallLuma ==
    /\ call.fn = "pack_qoi_op_luma"
    /\ ~call.done
    /\ call' = [call EXCEPT !.done = TRUE,
                   !.ret = pack_qoi_op_luma(call.args[1], call.args[2], call.args[3])]
    /\ UNCHANGED <<img, enc, chunks, file, dec, hist>>

(***************************************************************************)
(* The decoding functions, called on their own: read_sign_byte on a field, *)
(* the chunk dispatch of qoi_decode on one Diff or Luma chunk after a      *)
(* previous pixel, and f.write(pack_qoi_op_diff(..)) or                    *)
(* f.write(pack_qoi_op_luma(..)) followed by the decoding of what was      *)
(* written.                                                                *)
(***************************************************************************)
SignArgs == {<<v, 2>> : v \in 0..3} \union {<<v, 4>> : v \in 0..15} \union {<<v, 6>> : v \in 0..63}

\* every Diff chunk and every Luma chunk
DiffChunks == {<<b>> : b \in 64..127}
LumaChunks == {<<b, c>> : b \in 128..191, c \in 0..255}

\* previous pixels at and near both ends of the channel range
EdgePixels == {<<0, 0, 0>>, <<255, 255, 255>>, <<1, 254, 128>>, <<250, 3, 40>>}

\* the base of the round trips: far from both ends of the channel range
MidPx == <<128, 128, 128>>

\* the decoder about to read one chunk after the previous pixel px
DecAt(px) ==
    [DecIdle EXCEPT !.pc = "loop", !.px = px, !.px_len = 1, !.mat = <<ZeroPx>>]

CallReadSign ==
    /\ call.fn = "read_sign_byte"
    /\ ~call.done
    /\ call' = [call EXCEPT !.done = TRUE,
                   !.ret = read_sign_byte(call.args[1], call.args[2])]
    /\ UNCHANGED <<img, enc, chunks, file, dec, hist>>

\* line 277
WriteDiff ==
    /\ call.fn = "pack_qoi_op_diff"
    /\ ~call.done
    /\ LET packed == pack_qoi_op_diff(call.args[1], call.args[2], call.args[3])
       IN  /\ call' = [call EXCEPT !.done = TRUE, !.ret = packed]
           /\ file' = IF packed.err THEN file ELSE FileOf(packed.bytes)
    /\ UNCHANGED <<img, enc, chunks, dec, hist>>

\* line 281
WriteLuma ==
    /\ call.fn = "pack_qoi_op_luma"
    /\ ~call.done
    /\ LET packed == pack_qoi_op_luma(call.args[1], call.args[2], call.args[3])
       IN  /\ call' = [call EXCEPT !.done = TRUE, !.ret = packed]
           /\ file' = IF packed.err THEN file ELSE FileOf(packed.bytes)
    /\ UNCHANGED <<img, enc, chunks, dec, hist>>

\* lines 386-401 on the chunk at the start of the file
CallDecodeChunk ==
    /\ file.exists
    /\ dec.pc = "loop"
    /\ dec.fpos = 0
    /\ call.fn = "decode_chunk" \/ call.done
    /\ dec' = decode_chunk(dec)
    /\ call' = [call EXCEPT !.done = TRUE]
    /\ UNCHANGED <<img, enc, chunks, file, hist>>

(***************************************************************************)
(* The inputs.                                                             *)
(***************************************************************************)
\* black; a colour c; c + (1,-2,1); c + (1,-2,2); white; a colour whose
\* hash is that of c
Palette ==
    {<<0, 0, 0>>, <<78, 88, 98>>, <<79, 86, 99>>, <<79, 86, 100>>,
     <<255, 255, 255>>, <<200, 10, 10>>}

RunPalette == {<<0, 0, 0>>, <<78, 88, 98>>, <<79, 86, 99>>}

Image(height, width, mat) == [height |-> height, width |-> width, mat |-> mat]

NoImage == Image(0, 0, <<>>)

\* every image of at most MaxLen pixels of the palette, in every shape of
\* at most MaxHeight rows
ShortImages ==
    {Image(sh[1], sh[2], m) :
        sh \in {x \in (1..MaxHeight) \X (0..MaxLen) : x[1] * x[2] <= MaxLen},
        m \in UNION {[1..n -> Palette] : n \in 0..MaxLen}}

Streak(px, n) == [i \in 1..n |-> px]

OptPx == {<<>>} \cup {<<q>> : q \in RunPalette}

\* one row: at most one pixel, a streak of 61..MaxRunLen equal pixels, at
\* most one pixel
RunImages ==
    {Image(1, Len(m), m) :
        m \in {pre \o Streak(a, n) \o suf :
                  pre \in OptPx, a \in RunPalette, n \in 61..MaxRunLen, suf \in OptPx}}

Images == {im \in ShortImages : im.height * im.width = Len(im.mat)} \cup RunImages

\* chunks, whole or cut short, of hand-made streams
Tokens ==
    {<<254, 255, 255, 255>>, <<254, 78, 88, 98>>, <<254, 200>>, <<255>>, <<5>>,
     <<193>>, <<85>>, <<106>>, <<160>>, <<167, 131>>}

RECURSIVE Bodies(_)
Bodies(n) ==
    IF n = 0 THEN {<<>>}
    ELSE LET prev == Bodies(n - 1)
         IN  prev \cup {b \o t : b \in prev, t \in Tokens}

Tails == {<<>>, END_MARKER}

\* a good header for 1, 3 or 4 pixels, then up to MaxChunks tokens
BodyStreams ==
    {pack_qoi_header(sh[1], sh[2]) \o b \o t :
        sh \in {<<1, 1>>, <<3, 1>>, <<2, 2>>}, b \in Bodies(MaxChunks), t \in Tails}

Magics == {MAGIC, <<113, 111, 105, 103>>, <<0, 0, 0, 0>>}

Headers ==
    {QOI_HEADER_pack(m, sh[1], sh[2], ch, cs) :
        m \in Magics,
        sh \in {<<0, 0>>, <<1, 1>>, <<2, 1>>, <<256, 0>>, <<0, 16777219>>},
        ch \in {3, 4}, cs \in {0, 1}}

\* headers of every kind, whole (then a chunk or nothing) or cut short
HeaderStreams ==
    {h \o b : h \in Headers, b \in {<<>>, <<254, 78, 88, 98, 85>>}}
    \cup {SubSeq(h, 1, k) : h \in Headers, k \in {0, 3, 4, 13}}

\* write_test_case of playground.py
TestCase ==
    pack_qoi_header(10, 3)
    \o pack_qoi_op_rgb(78, 88, 98).bytes
    \o pack_qoi_op_run(9).bytes
    \o pack_qoi_op_rgb(60, 60, 60).bytes
    \o pack_qoi_op_diff(-2, -2, -2).bytes
    \o pack_qoi_op_luma(-3, -30, -5).bytes
    \o pack_qoi_op_rgb(133, 154, 96).bytes
    \o pack_qoi_op_diff(1, 0, 1).bytes
    \o pack_qoi_op_index(qoi_color_hash(133, 154, 96)).bytes
    \o pack_qoi_op_luma(2, 28, 5).bytes
    \o pack_qoi_op_rgb(255, 255, 255).bytes
    \o pack_qoi_op_run(12).bytes
    \o END_MARKER

Files ==
    {NoFile} \cup {FileOf(b) : b \in BodyStreams \cup HeaderStreams \cup {TestCase}}

\* what may follow the last chunk: nothing, the end marker, part of a
\* chunk, eight zero bytes
LiveTails == {<<>>, END_MARKER, <<254, 1>>, <<0, 0, 0, 0, 0, 0, 0, 0>>}

\* the files decoded under SpecDecode: no file, the header streams, a good
\* header for 1, 3 or 4 pixels then up to MaxLiveChunks tokens, and the
\* chunks of TestCase followed by each tail
DecodeFiles ==
    {NoFile}
    \cup {FileOf(b) : b \in HeaderStreams}
    \cup {FileOf(pack_qoi_header(sh[1], sh[2]) \o b \o t) :
             sh \in {<<1, 1>>, <<3, 1>>, <<2, 2>>}, b \in Bodies(MaxLiveChunks), t \in Tails}
    \cup {FileOf(SubSeq(TestCase, 1, Len(TestCase) - 8) \o t) : t \in LiveTails}

(***************************************************************************)
(* Spec: an image is encoded to the file and the file is decoded, or a     *)
(* given file (or no file) is decoded.                                     *)
(***************************************************************************)
Init ==
    /\ chunks = <<>>
    /\ hist = NoHist
    /\ dec = DecIdle
    /\ call = NoCall
    /\ \/ /\ img \in Images
          /\ enc = EncIdle
          /\ file = NoFile
       \/ /\ img = NoImage
          /\ enc = EncOff
          /\ file \in Files

Next ==
    \/ EncodeBegin
    \/ EncodePixel
    \/ EncodeEnd
    \/ DecodeBegin
    \/ DecodeIter
    \/ DecodeEnd

Spec == Init /\ [][Next]_vars

(***************************************************************************)
(* SpecDecode: qoi_decode on a given file.  Once the call is in its loop   *)
(* the interpreter keeps executing it: an iteration that can be taken is   *)
(* taken, and so is the return.                                            *)
(***************************************************************************)
InitDecode ==
    /\ chunks = <<>>
    /\ hist = NoHist
    /\ dec = DecIdle
    /\ call = NoCall
    /\ img = NoImage
    /\ enc = EncOff
    /\ file \in DecodeFiles

NextDecode ==
    \/ DecodeBegin
    \/ DecodeIter
    \/ DecodeEnd

SpecDecode ==
    /\ InitDecode
    /\ [][NextDecode]_vars
    /\ WF_vars(DecodeIter)
    /\ WF_vars(DecodeEnd)

(***************************************************************************)
(* SpecPack: one call of pack_qoi_op_diff or pack_qoi_op_luma, on every    *)
(* argument triple of the documented ranges and one step beyond them.      *)
(***************************************************************************)
InitPack ==
    /\ img = NoImage
    /\ hist = NoHist
    /\ enc = EncOff
    /\ chunks = <<>>
    /\ file = NoFile
    /\ dec = DecIdle
    /\ \/ \E a \in DiffArgs : call = [NoCall EXCEPT !.fn = "pack_qoi_op_diff", !.args = a]
       \/ \E a \in LumaArgs : call = [NoCall EXCEPT !.fn = "pack_qoi_op_luma", !.args = a]

NextPack ==
    \/ CallDiff
    \/ CallLuma

SpecPack == InitPack /\ [][NextPack]_vars

InitUnpack ==
    /\ img = NoImage
    /\ hist = NoHist
    /\ enc = EncOff
    /\ chunks = <<>>
    /\ \/ /\ file = NoFile
          /\ dec = DecIdle
          /\ \E a \in SignArgs : call = [NoCall EXCEPT !.fn = "read_sign_byte", !.args = a]
       \/ /\ \E c \in DiffChunks \union LumaChunks : file = FileOf(c)
          /\ \E p \in EdgePixels :
                /\ dec = DecAt(p)
                /\ call = [NoCall EXCEPT !.fn = "decode_chunk", !.args = p]
       \/ /\ file = NoFile
          /\ dec = DecAt(MidPx)
          /\ \/ \E a \in DiffArgs :
                   call = [NoCall EXCEPT !.fn = "pack_qoi_op_diff", !.args = a]
             \/ \E a \in LumaArgs :
                   call = [NoCall EXCEPT !.fn = "pack_qoi_op_luma", !.args = a]

NextUnpack ==
    \/ CallReadSign
    \/ CallDecodeChunk
    \/ WriteDiff
    \/ WriteLuma

SpecUnpack == InitUnpack /\ [][NextUnpack]_vars

(***************************************************************************)
(* Properties.                                                             *)
(***************************************************************************)
IsRun(c) == c.op = "RUN"

\* the lengths of the Run chunks written, in order
RunLengths == [i \in 1..Len(SelectSeq(chunks, IsRun)) |-> SelectSeq(chunks, IsRun)[i].args[1]]

\* the encoder is about to process pixel CurPx
AtPixel == enc.pc = "loop" /\ enc.mat_pos < ImgLen
CurPx == img.mat[enc.mat_pos + 1]
Delta == <<CurPx[1] - enc.px_pre[1], CurPx[2] - enc.px_pre[2], CurPx[3] - enc.px_pre[3]>>
CacheHit == enc.index_table[qoi_color_hash(CurPx[1], CurPx[2], CurPx[3])] = CurPx

\* the step writes a chunk for the pixel, of one of the opcodes ops
EmitsOneOf(ops) ==
    /\ Len(chunks') > Len(chunks)
    /\ chunks'[Len(chunks')].op \in ops
    /\ chunks'[Len(chunks')].pos = enc.mat_pos

\* the decoder is about to read a tag byte
AtTag == dec.pc = "loop" /\ dec.run = 0 /\ dec.mat_pos < dec.px_len
BytesLeft == Len(file.bytes) - dec.fpos

\* C1: round trip. Once qoi_encode has returned for an image I, qoi_decode of
\* the file never raises, and when it returns, the matrix returned has the
\* pixels of I in order and the shape (height, width, 3) of I, and the header
\* read has the width and height of I and channels 3.
C1_RoundTrip ==
    enc.pc = "done" =>
        /\ dec.pc # "raised"
        /\ dec.pc = "done" =>
              /\ dec.ret.kind = "ndarray"
              /\ dec.ret.data = img.mat
              /\ dec.ret.shape = <<img.height, img.width, 3>>
              /\ dec.header.width = img.width
              /\ dec.header.height = img.height
              /\ dec.header.channels = 3

\* a round trip is complete for an image whose chunks have a full Run, an
\* Index, a Diff or a Luma, and an Rgb
C1_Witness ==
    /\ enc.pc = "done"
    /\ dec.pc = "done"
    /\ \E i \in DOMAIN chunks : chunks[i].op = "RUN" /\ chunks[i].args = <<62>>
    /\ \E i \in DOMAIN chunks : chunks[i].op = "INDEX"
    /\ \E i \in DOMAIN chunks : chunks[i].op \in {"DIFF", "LUMA"}
    /\ \E i \in DOMAIN chunks : chunks[i].op = "RGB"

TestCasePixels ==
    Streak(<<78, 88, 98>>, 10)
    \o <<<<60, 60, 60>>, <<58, 58, 58>>, <<25, 28, 23>>, <<133, 154, 96>>,
         <<134, 154, 97>>, <<133, 154, 96>>, <<163, 182, 129>>>>
    \o Streak(<<255, 255, 255>>, 13)

\* C2: decoding the 10x3 stream of write_test_case never raises and returns
\* exactly 30 pixels: 0..9 (78,88,98), then (60,60,60), (58,58,58), (25,28,23),
\* (133,154,96), (134,154,97), (133,154,96), (163,182,129), 17..29 (255,255,255).
C2_TestCase ==
    file = FileOf(TestCase) =>
        /\ dec.pc # "raised"
        /\ dec.pc = "done" =>
              /\ Len(dec.ret.data) = 30
              /\ dec.ret.data = TestCasePixels
              /\ dec.ret.shape = <<3, 10, 3>>

C2_Witness == file = FileOf(TestCase) /\ dec.pc = "done"

\* C3: encoding 70 equal pixels followed by a different one writes exactly
\* two Run chunks, of lengths 62 and 7, in that order.
C3_RunSplit ==
    (/\ enc.pc = "done"
     /\ Len(img.mat) = 71
     /\ SubSeq(img.mat, 1, 70) = Streak(img.mat[1], 70)
     /\ img.mat[71] # img.mat[1])
    => RunLengths = <<62, 7>>

\* C4 as stated: whenever the pixel being encoded is the previous pixel plus
\* (+1,-2,+1) the step writes a Diff chunk for it; whenever it is the
\* previous pixel plus (+1,-2,+2) the step writes a Luma or an Rgb chunk.
C4_Original ==
    [][/\ (AtPixel /\ Delta = <<1, -2, 1>>) => EmitsOneOf({"DIFF"})
       /\ (AtPixel /\ Delta = <<1, -2, 2>>) => EmitsOneOf({"LUMA", "RGB"})]_vars

\* C4, amended: the same when the cache slot of the pixel does not hold it;
\* when the slot holds the pixel, the step writes an Index chunk in both cases.
C4_Boundary ==
    [][/\ (AtPixel /\ Delta = <<1, -2, 1>>) =>
              IF CacheHit THEN EmitsOneOf({"INDEX"}) ELSE EmitsOneOf({"DIFF"})
       /\ (AtPixel /\ Delta = <<1, -2, 2>>) =>
              IF CacheHit THEN EmitsOneOf({"INDEX"}) ELSE EmitsOneOf({"LUMA", "RGB"})]_vars

\* a Diff chunk was written for a pixel at (+1,-2,+1) of its predecessor, and
\* a Luma chunk for a pixel at (+1,-2,+2) of its predecessor
C4_Witness ==
    /\ \E i \in DOMAIN chunks : chunks[i].op = "DIFF" /\ chunks[i].args = <<1, -2, 1>>
    /\ \E i \in DOMAIN chunks : chunks[i].op = "LUMA" /\ chunks[i].args = <<3, -2, 4>>

InDiffRange(a) == \A i \in 1..3 : a[i] >= -2 /\ a[i] <= 1
InLumaRange(a) == a[1] >= -8 /\ a[1] <= 7 /\ a[2] >= -32 /\ a[2] <= 31 /\ a[3] >= -8 /\ a[3] <= 7

\* C5: for arguments in range, pack_qoi_op_diff returns the byte
\* 0x40 | (dr+2)<<4 | (dg+2)<<2 | (db+2) and pack_qoi_op_luma returns the
\* bytes 0x80 | (dg+32) and (drg+8)<<4 | (dbg+8).
C5_BiasedFields ==
    call.done =>
        /\ (call.fn = "pack_qoi_op_diff" /\ InDiffRange(call.args)) =>
              call.ret = Packed(<<64 + (call.args[1] + 2) * 16 + (call.args[2] + 2) * 4
                                  + (call.args[3] + 2)>>)
        /\ (call.fn = "pack_qoi_op_luma" /\ InLumaRange(call.args)) =>
              call.ret = Packed(<<128 + (call.args[2] + 32),
                                  (call.args[1] + 8) * 16 + (call.args[3] + 8)>>)

HasMagic == Len(file.bytes) >= 4 /\ SubSeq(file.bytes, 1, 4) = MAGIC
LacksMagic == Len(file.bytes) >= 4 /\ SubSeq(file.bytes, 1, 4) # MAGIC

\* the call has failed on the header, with no pixel output
HeaderRejected(err) ==
    /\ dec.pc = "raised"
    /\ dec.err = err
    /\ dec.ret = NoRet
    /\ dec.mat = <<>>
    /\ dec.mat_pos = 0

\* the header was accepted, its fields are those the bytes of the file spell
HeaderAccepted ==
    /\ dec.pc \in {"loop", "done"}
    /\ dec.header.width >= 0
    /\ dec.header.height >= 0
    /\ PackU32(dec.header.width) = SubSeq(file.bytes, 5, 8)
    /\ PackU32(dec.header.height) = SubSeq(file.bytes, 9, 12)
    /\ dec.header.channels = file.bytes[13]
    /\ dec.header.colorspace = file.bytes[14]

\* C6 as stated: a file whose first 4 bytes are not the magic makes the call
\* fail on the magic test with no pixel output; a file whose first 4 bytes are
\* the magic passes the header check and the four fields are read verbatim.
C6_Original ==
    (file.exists /\ dec.pc # "idle") =>
        /\ LacksMagic => HeaderRejected("AssertionError")
        /\ HasMagic => HeaderAccepted

\* C6, amended: the same for a file of at least 14 bytes; a file of fewer
\* than 14 bytes makes the call fail in the unpacking of the header
\* (struct.error) with no pixel output, whatever its first bytes are.
C6_Header ==
    (file.exists /\ dec.pc # "idle") =>
        /\ (Len(file.bytes) >= QOI_HEADER_size /\ LacksMagic) =>
              HeaderRejected("AssertionError")
        /\ (Len(file.bytes) >= QOI_HEADER_size /\ HasMagic) => HeaderAccepted
        /\ Len(file.bytes) < QOI_HEADER_size => HeaderRejected("struct.error")

\* a header of width 256 was accepted, and the call has returned
C6_Witness ==
    /\ enc.pc = "off"
    /\ HasMagic
    /\ dec.pc = "done"
    /\ dec.header.width = 256
    /\ dec.header.channels = 4

\* C7: when the decoder, with no run pending and pixels still to produce,
\* reads the tag byte 0xFF, the call fails and no pixel is emitted for it.
C7_RgbaRejected ==
    [][(AtTag /\ BytesLeft >= 1 /\ file.bytes[dec.fpos + 1] = QOI_TAG_RGBA) =>
          (dec'.pc = "raised" /\ dec'.mat_pos = dec.mat_pos)]_vars

\* the bytes the chunk at the offset of the decoder needs
BytesNeeded ==
    IF BytesLeft < 1 THEN 1
    ELSE IF file.bytes[dec.fpos + 1] = QOI_TAG_RGB THEN 4
    ELSE IF file.bytes[dec.fpos + 1] \in 128..191 THEN 2
    ELSE 1

\* C8: when the file ends before the chunk the decoder needs is complete
\* (the tag byte, the 3 value bytes of an Rgb chunk or the second byte of a
\* Luma chunk is missing), the call fails and returns no matrix.
C8_Truncation ==
    [][(AtTag /\ BytesLeft < BytesNeeded) =>
          (dec'.pc = "raised" /\ dec'.ret = NoRet)]_vars

\* C9: a call of qoi_decode on a path with no file ends in a failure, it
\* never returns.
C9_MissingInput ==
    (~file.exists /\ dec.pc # "idle") => (dec.pc = "raised" /\ dec.ret = NoRet)

\* C10: no assert of a packer fails during qoi_encode, and every chunk
\* written was packed from arguments in range: Run 1..62 (byte 0xC0..0xFD),
\* Index 0..63, Diff components -2..1, Luma dg -32..31 and drg, dbg -8..7.
C10_RangeSafety ==
    /\ enc.pc # "raised"
    /\ \A i \in DOMAIN chunks :
          LET c == chunks[i]
          IN  /\ c.op = "RUN" =>
                    /\ c.args[1] \in 1..62
                    /\ c.bytes[1] \in 192..253
                    /\ c.bytes[1] \notin {QOI_TAG_RGB, QOI_TAG_RGBA}
              /\ c.op = "INDEX" => c.args[1] \in 0..63
              /\ c.op = "DIFF" => InDiffRange(c.args)
              /\ c.op = "LUMA" => InLumaRange(c.args)

\* an encode call is complete that wrote a Run of 62, an Index, a Diff and a Luma
C10_Witness ==
    /\ enc.pc = "done"
    /\ \E i \in DOMAIN chunks : chunks[i].op = "RUN" /\ chunks[i].args = <<62>>
    /\ \E i \in DOMAIN chunks : chunks[i].op = "INDEX"
    /\ \E i \in DOMAIN chunks : chunks[i].op = "DIFF"
    /\ \E i \in DOMAIN chunks : chunks[i].op = "LUMA"

\* the bytes of a sequence of logged chunks, in order
RECURSIVE ChunkBytes(_)
ChunkBytes(cs) == IF cs = <<>> THEN <<>> ELSE ChunkBytes(SubSeq(cs, 1, Len(cs) - 1)) \o cs[Len(cs)].bytes

\* the 14 bytes b are 'qoif', the width and the height of the image as
\* big-endian 32-bit numbers, channels 3 and colorspace 1
IsHeaderOfImg(b) ==
    /\ Len(b) = 14
    /\ SubSeq(b, 1, 4) = <<113, 111, 105, 102>>
    /\ ((b[5] * 256 + b[6]) * 256 + b[7]) * 256 + b[8] = img.width
    /\ ((b[9] * 256 + b[10]) * 256 + b[11]) * 256 + b[12] = img.height
    /\ b[13] = 3
    /\ b[14] = 1

\* C11: while qoi_encode runs, the file is the 14-byte header followed by the
\* bytes of the chunks written so far, in order; once it has returned, the
\* file is that followed by the 8 bytes 00 00 00 00 00 00 00 01, which are its
\* last bytes; for an image of zero pixels it is header + end marker, 22
\* bytes, with no chunk.
C11_Framing ==
    /\ enc.pc = "loop" =>
          /\ Len(file.bytes) >= 14
          /\ IsHeaderOfImg(SubSeq(file.bytes, 1, 14))
          /\ SubSeq(file.bytes, 15, Len(file.bytes)) = ChunkBytes(chunks)
    /\ enc.pc = "done" =>
          /\ Len(file.bytes) = 14 + Len(ChunkBytes(chunks)) + 8
          /\ IsHeaderOfImg(SubSeq(file.bytes, 1, 14))
          /\ SubSeq(file.bytes, 15, Len(file.bytes) - 8) = ChunkBytes(chunks)
          /\ SubSeq(file.bytes, Len(file.bytes) - 7, Len(file.bytes)) = <<0, 0, 0, 0, 0, 0, 0, 1>>
          /\ ImgLen = 0 => (chunks = <<>> /\ Len(file.bytes) = 22)

\* an encode call has returned that wrote a one-byte chunk, a Luma chunk and
\* an Rgb chunk
C11_Witness ==
    /\ enc.pc = "done"
    /\ \E i \in DOMAIN chunks : chunks[i].op = "RUN"
    /\ \E i \in DOMAIN chunks : chunks[i].op = "LUMA"
    /\ \E i \in DOMAIN chunks : chunks[i].op = "RGB"

\* C12: every call of qoi_encode starts from previous pixel (0,0,0), run 0
\* and an all-zero cache, whatever encode and decode calls came before, and
\* every call on the image leaves the file byte for byte as the first call
\* left it.
C12_Deterministic ==
    /\ (enc.pc = "loop" /\ enc.mat_pos = 0) =>
          /\ enc.px_pre = <<0, 0, 0>>
          /\ enc.run = 0
          /\ \A i \in 0..63 : enc.index_table[i] = <<0, 0, 0>>
    /\ (enc.pc = "done" /\ hist.calls >= 1) => file.bytes = hist.out

\* the image was encoded, decoded and encoded again, and the cache was
\* written during the calls
C12_Witness ==
    /\ enc.pc = "done"
    /\ hist.calls = 2
    /\ dec.pc = "done"
    /\ \E i \in DOMAIN chunks : chunks[i].op = "RGB"
    /\ \E i \in DOMAIN chunks : chunks[i].op = "INDEX"

\* the chunks the step writes
NewChunks == SubSeq(chunks', Len(chunks) + 1, Len(chunks'))

NotRun(c) == c.op # "RUN"

\* the pixel being encoded extends a run
ExtendsARun == CurPx = enc.px_pre /\ enc.mat_pos # 0 /\ enc.run < 62

\* the chunk the priority order selects for the pixel being encoded
Selected ==
    LET p == CurPx
        d == Delta
        h == (p[1] * 3 + p[2] * 5 + p[3] * 7 + 255 * 11) % 64
    IN  IF enc.index_table[h] = p
        THEN [op |-> "INDEX", args |-> <<h>>]
        ELSE IF \A i \in 1..3 : d[i] \in -2..1
        THEN [op |-> "DIFF", args |-> d]
        ELSE IF d[2] \in -32..31 /\ (d[1] - d[2]) \in -8..7 /\ (d[3] - d[2]) \in -8..7
        THEN [op |-> "LUMA", args |-> <<d[1] - d[2], d[2], d[3] - d[2]>>]
        ELSE [op |-> "RGB", args |-> p]

\* C13: a step of the encoder on a pixel that does not extend a run writes
\* exactly one chunk that is not a Run, as its last chunk: Index(hash(p)) if
\* the cache slot holds p, otherwise Diff if dr, dg, db are in -2..1, otherwise
\* Luma if dg is in -32..31 and dr-dg, db-dg in -8..7, otherwise Rgb; a step
\* on a pixel that extends a run writes no chunk but a Run.
C13_Priority ==
    [][AtPixel =>
          IF ExtendsARun
          THEN \A i \in DOMAIN NewChunks : NewChunks[i].op = "RUN"
          ELSE /\ Len(SelectSeq(NewChunks, NotRun)) = 1
               /\ NewChunks[Len(NewChunks)].op = Selected.op
               /\ NewChunks[Len(NewChunks)].args = Selected.args
               /\ NewChunks[Len(NewChunks)].pos = enc.mat_pos]_vars

\* an Index chunk was written for a pixel that differs from its predecessor
\* by a difference that fits Diff
C13_Witness ==
    \E i \in DOMAIN chunks :
        /\ chunks[i].op = "INDEX"
        /\ chunks[i].pos >= 1
        /\ img.mat[chunks[i].pos + 1] # img.mat[chunks[i].pos]
        /\ \A c \in 1..3 :
              (img.mat[chunks[i].pos + 1][c] - img.mat[chunks[i].pos][c]) \in -2..1

\* the cache slot of a pixel, alpha taken as 255
SlotOf(p) == (p[1] * 3 + p[2] * 5 + p[3] * 7 + 255 * 11) % 64

\* the step of the encoder writes an Rgb chunk
WritesRgb == Len(NewChunks) > 0 /\ NewChunks[Len(NewChunks)].op = "RGB"

\* the step of the decoder reads the tag byte of an Rgb chunk
ReadsRgb == AtTag /\ BytesLeft >= 1 /\ file.bytes[dec.fpos + 1] = 254

\* C14: in a step of the encoder loop or of the decoder loop the cache changes
\* only if the step writes, or reads, an Rgb chunk, and then only the slot
\* (r*3 + g*5 + b*7 + 255*11) % 64 of its pixel changes, to that pixel; a step
\* on a Run, Index, Diff or Luma chunk, or one that extends or consumes a run,
\* leaves all 64 slots as they were.
C14_CacheFrame ==
    [][/\ (enc.pc = "loop" /\ enc' # enc) =>
              IF WritesRgb
              THEN enc'.index_table = [enc.index_table EXCEPT ![SlotOf(CurPx)] = CurPx]
              ELSE enc'.index_table = enc.index_table
       /\ (dec.pc = "loop" /\ dec' # dec) =>
              IF ReadsRgb
              THEN dec'.index_table =
                       [dec.index_table EXCEPT ![SlotOf(dec'.px)] = dec'.px]
              ELSE dec'.index_table = dec.index_table]_vars

\* both loops have run over Rgb, Index and Diff chunks and the decoder's cache
\* holds a pixel that is not the zero pixel
C14_Witness ==
    /\ enc.pc = "done"
    /\ dec.pc = "done"
    /\ \E i \in 0..63 : dec.index_table[i] # <<0, 0, 0>> /\ enc.index_table[i] = dec.index_table[i]
    /\ \E i \in DOMAIN chunks : chunks[i].op = "INDEX"
    /\ \E i \in DOMAIN chunks : chunks[i].op = "DIFF"

\* the locals of qoi_encode on img after k iterations of its loop
RECURSIVE EncAfter(_)
EncAfter(k) ==
    IF k = 0
    THEN [pc |-> "loop", mat_pos |-> 0, px_pre |-> <<0, 0, 0>>, run |-> 0,
          index_table |-> [i \in 0..63 |-> <<0, 0, 0>>], f |-> <<>>, chunks |-> <<>>]
    ELSE encode_pixel(EncAfter(k - 1), img.mat[k], k = ImgLen)

\* C15: while qoi_decode runs on the file qoi_encode wrote for the image, and
\* after it has returned, its previous pixel and its 64 cache slots after k
\* pixels produced are those of the encoder after k pixels processed, for
\* every k from 0 to width*height; the encoder's own locals after k pixels
\* are those of k iterations of its loop from the initial state.
C15_LockStep ==
    /\ enc.pc = "loop" =>
           /\ EncAfter(enc.mat_pos).px_pre = enc.px_pre
           /\ EncAfter(enc.mat_pos).index_table = enc.index_table
           /\ EncAfter(enc.mat_pos).run = enc.run
    /\ (enc.pc = "done" /\ dec.pc \in {"loop", "done"}) =>
           /\ dec.mat_pos <= ImgLen
           /\ dec.px = EncAfter(dec.mat_pos).px_pre
           /\ dec.index_table = EncAfter(dec.mat_pos).index_table

\* the decoder is inside a run of the encoder's file, after an Rgb chunk has
\* filled a cache slot, with pixels still to produce
C15_Witness ==
    /\ enc.pc = "done"
    /\ dec.pc = "loop"
    /\ dec.mat_pos >= 2
    /\ dec.mat_pos < ImgLen
    /\ dec.run > 0
    /\ dec.px # <<0, 0, 0>>
    /\ \E i \in 0..63 : dec.index_table[i] = dec.px

\* inside a run the byte before the file offset is the Run tag byte b of
\* n = (b & 0x3F) + 1 repeats, and the n - run pixels produced since it was
\* read are copies of the previous pixel
RunYield ==
    (dec.pc \in {"loop", "done"} /\ dec.run > 0) =>
        /\ dec.fpos >= 1
        /\ file.bytes[dec.fpos] \in 192..253
        /\ LET n == (file.bytes[dec.fpos] % 64) + 1
               k == n - dec.run
           IN  /\ k >= 1
               /\ k <= dec.mat_pos
               /\ \A j \in 1..k : dec.mat[dec.mat_pos - j + 1] = dec.px

\* one iteration of the decoder loop: bytes consumed, pending count, pixel
RunStep ==
    (dec.pc = "loop" /\ dec.mat_pos < dec.px_len /\ dec' # dec) =>
        /\ dec'.mat_pos = dec.mat_pos + 1
        /\ dec'.mat[dec.mat_pos + 1] = dec'.px
        /\ \A j \in 1..dec.mat_pos : dec'.mat[j] = dec.mat[j]
        /\ IF dec.run # 0
           THEN dec'.fpos = dec.fpos /\ dec'.run = dec.run - 1 /\ dec'.px = dec.px
           ELSE BytesLeft >= BytesNeeded =>
                LET b == file.bytes[dec.fpos + 1]
                IN  IF b \in 192..253
                    THEN /\ dec'.fpos = dec.fpos + 1
                         /\ dec'.run = ((b % 64) + 1) - 1
                         /\ dec'.px = dec.px
                    ELSE IF b = 254 THEN dec'.fpos = dec.fpos + 4 /\ dec'.run = 0
                    ELSE IF b \in 128..191 THEN dec'.fpos = dec.fpos + 2 /\ dec'.run = 0
                    ELSE IF b \in 0..127 THEN dec'.fpos = dec.fpos + 1 /\ dec'.run = 0
                    ELSE TRUE

\* C16: while the pending run count is not zero an iteration of the decoder
\* emits the previous pixel and decrements the count without reading a byte;
\* a Run tag byte b consumes one byte, emits the first repeat and leaves
\* (b & 0x3F) + 1 - 1 repeats pending, so that the chunk yields (b & 0x3F) + 1
\* copies unless width*height is reached first; a complete Index or Diff chunk
\* consumes 1 byte, a Luma chunk 2 and an Rgb chunk 4, each for one pixel.
C16_RunDecoding == []RunYield /\ [][RunStep]_vars

\* the decoder has read the tag byte of a Run of 62 and has 61 repeats pending
C16_Witness ==
    /\ dec.pc = "loop"
    /\ dec.run = 61
    /\ file.bytes[dec.fpos] = 253
    /\ dec.mat_pos < dec.px_len

\* the value of an N-bit two's complement field v
Signed(v, N) == IF v >= Pow2(N - 1) THEN v - Pow2(N) ELSE v

\* the differences a Diff or Luma chunk carries for the three channels
DeltaOf(c) ==
    IF Len(c) = 1
    THEN <<Signed((c[1] \div 16) % 4, 2), Signed((c[1] \div 4) % 4, 2), Signed(c[1] % 4, 2)>>
    ELSE LET dg == Signed(c[1] % 64, 6)
         IN  <<Signed(c[2] \div 16, 4) + dg, dg, Signed(c[2] % 16, 4) + dg>>

Decoded == call.fn = "decode_chunk" /\ call.done

\* C17: for every previous pixel and every Diff or Luma chunk the decoder
\* does not raise and each channel of the pixel decoded is (previous channel +
\* delta) mod 256, in 0..255, with dr = drg + dg and db = dbg + dg for Luma;
\* channel 255 with delta +1 gives 0 and channel 0 with delta -2 gives 254.
C17_Wraparound ==
    Decoded =>
        /\ dec.pc = "loop"
        /\ dec.err = "none"
        /\ \A i \in 1..3 :
              /\ dec.px[i] \in 0..255
              /\ dec.px[i] = (call.args[i] + DeltaOf(file.bytes)[i] + 256) % 256
        /\ (call.args = <<255, 255, 255>> /\ file.bytes = <<85>>) => dec.px = <<0, 0, 0>>
        /\ (call.args = <<0, 0, 0>> /\ file.bytes = <<106>>) => dec.px = <<254, 254, 254>>

\* a Luma chunk of dg = -32, drg = dbg = -8 decoded after black: the red and
\* blue channels wrap from 0 to 216 and the green one to 224
C17_Witness ==
    /\ Decoded
    /\ call.args = <<0, 0, 0>>
    /\ file.bytes = <<160, 136>>
    /\ dec.px = <<216, 224, 216>>

\* the pixel before pixel pos of the image: the zero pixel before the first
PrevOf(pos) == IF pos = 0 THEN <<0, 0, 0>> ELSE img.mat[pos]

\* the integer differences of pixel pos of the image to the pixel before it
PlainDelta(pos) ==
    <<img.mat[pos + 1][1] - PrevOf(pos)[1],
      img.mat[pos + 1][2] - PrevOf(pos)[2],
      img.mat[pos + 1][3] - PrevOf(pos)[3]>>

\* a channel moves by more than half the range: small only modulo 256
WrapsOnly(pos) == \E i \in 1..3 : PlainDelta(pos)[i] > 127 \/ PlainDelta(pos)[i] < -128

\* C18: the differences a Diff or Luma chunk is written with are the integer
\* differences of the pixel to its predecessor, in -255..255 and not reduced
\* modulo 256, so that previous + delta is in 0..255 on every channel; a
\* pixel with a channel that is close to its predecessor only modulo 256
\* (255 -> 0, 0 -> 255) gets neither a Diff nor a Luma chunk.
C18_PlainDifferences ==
    \A i \in DOMAIN chunks :
        LET c == chunks[i]
            d == PlainDelta(c.pos)
        IN  /\ c.op = "DIFF" =>
                  /\ c.args = d
                  /\ \A k \in 1..3 : d[k] \in -2..1
            /\ c.op = "LUMA" =>
                  /\ c.args = <<d[1] - d[2], d[2], d[3] - d[2]>>
                  /\ d[2] \in -32..31
            /\ c.op \in {"DIFF", "LUMA"} =>
                  /\ ~WrapsOnly(c.pos)
                  /\ \A k \in 1..3 : (PrevOf(c.pos)[k] + d[k]) \in 0..255

\* white after black, or black after white, was encoded and so were a pixel
\* by a Diff chunk and one by a Luma chunk
C18_Witness ==
    /\ \E i \in DOMAIN chunks :
          /\ chunks[i].op \in {"RGB", "INDEX"}
          /\ \A k \in 1..3 : PlainDelta(chunks[i].pos)[k] \in {255, -255}
    /\ \E i \in DOMAIN chunks : chunks[i].op = "DIFF"
    /\ \E i \in DOMAIN chunks : chunks[i].op = "LUMA"

\* the chunk a packer returned has been written and decoded after MidPx
RoundTripped(fn) == call.fn = fn /\ call.done /\ file.exists /\ dec.fpos > 0

\* C19: read_sign_byte(v, N), for N in {2, 4, 6} and v in 0..2^N-1, returns
\* v - 2^N when the top bit of v is set and v otherwise; and the differences
\* decoded from the bytes pack_qoi_op_diff(dr, dg, db) or
\* pack_qoi_op_luma(drg, dg, dbg) returns for arguments in range are the
\* arguments.
C19_SignedInverse ==
    /\ (call.fn = "read_sign_byte" /\ call.done) =>
           LET v == call.args[1]
               N == call.args[2]
               top == IF N = 2 THEN 2 ELSE IF N = 4 THEN 8 ELSE 32
               size == IF N = 2 THEN 4 ELSE IF N = 4 THEN 16 ELSE 64
           IN  call.ret = IF v >= top THEN v - size ELSE v
    /\ (call.fn = "pack_qoi_op_diff" /\ call.done /\ InDiffRange(call.args)) =>
           /\ ~call.ret.err
           /\ Len(call.ret.bytes) = 1
    /\ (call.fn = "pack_qoi_op_luma" /\ call.done /\ InLumaRange(call.args)) =>
           /\ ~call.ret.err
           /\ Len(call.ret.bytes) = 2
    /\ RoundTripped("pack_qoi_op_diff") =>
           /\ dec.fpos = 1
           /\ <<dec.px[1] - 128, dec.px[2] - 128, dec.px[3] - 128>> = call.args
    /\ RoundTripped("pack_qoi_op_luma") =>
           /\ dec.fpos = 2
           /\ <<dec.px[1] - dec.px[2], dec.px[2] - 128, dec.px[3] - dec.px[2]>> = call.args

\* the chunk of pack_qoi_op_luma(-8, -32, 7) has been decoded
C19_Witness ==
    /\ RoundTripped("pack_qoi_op_luma")
    /\ call.args = <<-8, -32, 7>>
    /\ dec.px = <<88, 96, 103>>

\* C20: the chunks the encoder has written never hold two Index chunks of
\* the same slot one after the other: the repeat of a pixel goes into a Run.
C20_NoRepeatedIndex ==
    \A i \in 1..(Len(chunks) - 1) :
        ~(/\ chunks[i].op = "INDEX"
          /\ chunks[i + 1].op = "INDEX"
          /\ chunks[i + 1].args = chunks[i].args)

\* an Index chunk was written for a pixel whose repeats went into the Run
\* chunk that follows it
C20_Witness ==
    \E i \in 1..(Len(chunks) - 1) :
        /\ chunks[i].op = "INDEX"
        /\ chunks[i + 1].op = "RUN"
        /\ chunks[i].pos + 2 <= ImgLen
        /\ img.mat[chunks[i].pos + 2] = img.mat[chunks[i].pos + 1]

\* the number of pixels a sequence of chunks stands for: n for Run(n), 1 for
\* any other chunk
RECURSIVE PixelsOf(_)
PixelsOf(cs) ==
    IF cs = <<>> THEN 0
    ELSE PixelsOf(SubSeq(cs, 1, Len(cs) - 1))
         + (IF cs[Len(cs)].op = "RUN" THEN cs[Len(cs)].args[1] ELSE 1)

\* C21 as stated: at every point of an encode the pixels the chunks stand for
\* plus the run counter are the pixels processed so far, and at the end the
\* chunks stand for width*height pixels.
C21_Original ==
    /\ enc.pc \in {"loop", "done"} => PixelsOf(chunks) + enc.run = enc.mat_pos
    /\ enc.pc = "done" => PixelsOf(chunks) = ImgLen

\* C21: while pixels are left to process, the pixels the chunks stand for
\* plus the run counter are the pixels processed so far; once the last pixel
\* has been processed, and at the end of the encode, the chunks stand for
\* width*height pixels exactly, and a run counter that is not 0 then (line 254
\* writes the run of the last pixel without resetting the counter) is the
\* length of the Run chunk written last, so that no run is left unwritten.
C21_Accounting ==
    /\ AtPixel => PixelsOf(chunks) + enc.run = enc.mat_pos
    /\ (enc.pc = "done" \/ (enc.pc = "loop" /\ enc.mat_pos = ImgLen)) =>
           /\ PixelsOf(chunks) = ImgLen
           /\ enc.run # 0 =>
                  /\ chunks # <<>>
                  /\ chunks[Len(chunks)].op = "RUN"
                  /\ chunks[Len(chunks)].args = <<enc.run>>

\* an encode has ended on a run, after a run of 62 was split off
C21_Witness ==
    /\ enc.pc = "done"
    /\ enc.run # 0
    /\ \E i \in DOMAIN chunks : chunks[i].op = "RUN" /\ chunks[i].args = <<62>>
    /\ chunks[Len(chunks)].op = "RUN"

\* the file offset after the chunks that n pixels need, from offset pos: a
\* Run chunk of tag byte b stands for (b & 0x3F) + 1 pixels and has 1 byte, an
\* Rgb chunk has 4, a Luma chunk 2, any other 1; at the end of the file
\* nothing more is read
RECURSIVE OffsetAfter(_, _)
OffsetAfter(pos, n) ==
    IF n <= 0 \/ pos >= Len(file.bytes) THEN Min(pos, Len(file.bytes))
    ELSE LET b == file.bytes[pos + 1]
         IN  IF b = 254 THEN OffsetAfter(pos + 4, n - 1)
             ELSE IF b = 255 THEN OffsetAfter(pos + 1, n - 1)
             ELSE IF b >= 192 THEN OffsetAfter(pos + 1, n - ((b % 64) + 1))
             ELSE IF b >= 128 THEN OffsetAfter(pos + 2, n - 1)
             ELSE OffsetAfter(pos + 1, n - 1)

\* in and after the loop: the pixel count is width*height, no more pixels
\* than that are produced, and the file has been read up to the end of the
\* last chunk the pixels produced need, and no further
ReadsWhatItNeeds ==
    dec.pc \in {"loop", "done"} /\ file.exists =>
        /\ dec.px_len = dec.header.width * dec.header.height
        /\ dec.mat_pos <= dec.px_len
        /\ Len(dec.mat) = dec.px_len
        /\ dec.fpos = OffsetAfter(14, dec.mat_pos)
        /\ dec.pc = "done" =>
               /\ dec.mat_pos = dec.px_len
               /\ dec.ret.kind = "ndarray"
               /\ Len(dec.ret.data) = dec.px_len

\* a step of the loop is an iteration that produces one pixel, or the return
OnePixelPerIteration ==
    (dec.pc = "loop" /\ dec' # dec) =>
        \/ dec'.pc = "loop" /\ dec'.mat_pos = dec.mat_pos + 1
        \/ dec'.pc = "done" /\ dec.mat_pos = dec.px_len /\ dec'.mat_pos = dec.mat_pos

\* C22: for every byte stream with a header that is accepted, the loop of
\* qoi_decode ends: each iteration produces exactly one pixel, the call
\* returns after exactly width*height of them, and the bytes after the last
\* chunk the pixels need (the end marker among them) are not read.
C22_Termination ==
    /\ []ReadsWhatItNeeds
    /\ [][OnePixelPerIteration]_vars
    /\ (dec.pc = "loop") ~>
           (dec.pc = "done" /\ Len(dec.ret.data) = dec.header.width * dec.header.height)

\* a call has returned 3 pixels or more from a stream that goes on after the
\* last chunk needed with bytes that are not the end marker
C22_Witness ==
    /\ dec.pc = "done"
    /\ dec.ret.kind = "ndarray"
    /\ Len(dec.ret.data) >= 3
    /\ dec.fpos < Len(file.bytes)
    /\ SubSeq(file.bytes, dec.fpos + 1, Len(file.bytes)) # END_MARKER

====
